---- MODULE Spec2Model ----
(***************************************************************************)
(* Real-time presence, message-delivery tracking and call signalling of    *)
(* the social-network server: the socket handler (socketHandler), the      *)
(* chat controller (sendMessage, updateMessageStatus, startVideoCall,      *)
(* updateCallStatus) and the shared Redis store they use.                  *)
(*                                                                         *)
(* The specifications share the variables:                                 *)
(*   SpecPresence   connection lifecycle + sendMessage                     *)
(*   SpecHandshake  io.use with credentials and connection setup           *)
(*   SpecSignal     handshake, lifecycle, rooms, relay, failing handlers   *)
(*   SpecChat       the delivery tracker driven by registered sockets      *)
(*   SpecChatSeq    the same, one request at a time                        *)
(*   SpecCall       call records, signalling keys and their expiry         *)
(*   SpecRooms      room fan-out among registered sockets                  *)
(*   SpecRelay      signalling relay among registered sockets              *)
(* The first three start when the process starts, with either of the two   *)
(* socket handler modules loaded; the others start in the state reached    *)
(* after the connection handlers of A, B and C have run one after the      *)
(* other.  HTTP handlers and event listeners run to completion;            *)
(* updateMessageStatus and the socket connection / disconnect handlers     *)
(* are split at their awaits.                                              *)
(***************************************************************************)
EXTENDS Integers, Sequences, FiniteSets, Bags, TLC

VARIABLES
    sockets,        \* connections accepted by io.use, in order of socket.id
    onlineUsers,    \* Redis hash 'online-users': userId -> socket.id
    events,         \* presence broadcasts so far (user-online / user-offline)
    messages,       \* Message collection, in order of _id
    inflight,       \* bag of updateMessageStatus invocations between their awaits
    opCount,        \* updateMessageStatus invocations that found their message
    calls,          \* Call collection, in order of _id
    callKey,        \* Redis hashes call:<callId> with their expiry deadline
    callParticipants, \* Redis sets call:<callId>:participants
    now,            \* wall clock, seconds
    handler,        \* the socket handler module the build loads
    rooms,          \* adapter: the rooms each socket.id has been added to
    emitted,        \* the last thing io.use or an event listener emitted
    process         \* "up", or "down" once an uncaught error ended the process

vars == <<sockets, onlineUsers, events, messages, inflight, opCount,
          calls, callKey, callParticipants, now,
          handler, rooms, emitted, process>>

presenceVars == <<sockets, onlineUsers, events>>
chatVars == <<messages, inflight, opCount>>
callVars == <<calls, callKey, callParticipants, now>>
signalVars == <<handler, rooms, emitted, process>>

----------------------------------------------------------------------------
(* Bounds *)

MaxSockets == 2      \* connections accepted over a run
MaxMsgs == 1         \* messages sent over a run
MaxOps == 3          \* updateMessageStatus invocations over a run
MaxCalls == 1        \* calls started over a run
MaxClock == 60       \* the clock stops advancing here
TickSeconds == 60    \* granularity of the clock

Users == {"A", "B", "C"}

\* Users whose clients open and close socket connections.
HandshakeUsers == {"B", "C"}

\* Users whose clients post messages and start calls.
Senders == {"A"}

\* Users the callers address their webrtc-offer to.
Callees == {"B"}

\* Conversation documents: participants never change after startConversation.
Conversations ==
    [c1 |-> <<"A", "B">>, c2 |-> <<"A", "B", "C">>]

ConversationIds == DOMAIN Conversations

Range(f) == {f[i] : i \in DOMAIN f}

----------------------------------------------------------------------------
(* Presence: socketHandler connection / disconnect *)

\* app.locals.onlineUsers: created empty and never added to.
appLocalsOnlineUsers == {}

SocketIds == 1..Len(sockets)

\* Sockets Socket.IO still holds a transport for.
Connected == {s \in SocketIds : sockets[s].state \in {"connecting", "live"}}

Live(u) == {s \in SocketIds : sockets[s].user = u /\ sockets[s].state = "live"}

\* The two socket handler modules of the repository.
Handlers == {"part_010", "socket.js"}

\* Every socket is in the room named by its own id from the moment it connects.
SocketRoom(s) == "sid_" \o ToString(s)

\* socket.join(`user_${userId}`)
UserRoom(u) == "user_" \o u

\* The connected sockets the adapter finds in room r.
InRoom(r) == {s \in Connected : r \in rooms[s]}

\* Neither io.use nor an event listener has emitted anything yet.
NoEmission == [name |-> "none"]

\* Broadcast with io.emit in place of socket.broadcast.emit.
BroadcastAll(name, u, s) ==
    [name |-> name, userId |-> u, from |-> s, to |-> Connected, callId |-> 0]

Broadcast(name, u, s) ==
    [name |-> name, userId |-> u, from |-> s, to |-> Connected \ {s}, callId |-> 0]

\* io.use passed; the connection handler runs up to `await hset`.
Connect(u) ==
    /\ process = "up"
    /\ Len(sockets) < MaxSockets
    /\ sockets' = Append(sockets, [user |-> u, state |-> "connecting"])
    /\ rooms' = Append(rooms, {SocketRoom(Len(sockets) + 1)})
    /\ UNCHANGED <<onlineUsers, events, chatVars, callVars,
                   handler, emitted, process>>

\* Register with the broadcast sent while hset is still pending.
RegisterBroadcastFirst(s) ==
    /\ process = "up"
    /\ s \in SocketIds
    /\ sockets[s].state \in {"connecting", "gone"}
    /\ events' = events \cup {Broadcast("user-online", sockets[s].user, s)}
    /\ sockets' = [sockets EXCEPT ![s].state =
                      IF sockets[s].state = "connecting" THEN "live" ELSE "closed"]
    /\ rooms' = [rooms EXCEPT ![s] = @ \cup {UserRoom(sockets[s].user)}]
    /\ UNCHANGED <<onlineUsers, chatVars, callVars, handler, emitted, process>>

\* hset completes: presence entry, user-online broadcast, personal room,
\* listeners installed.  On a socket that dropped meanwhile the 'disconnect'
\* listener comes too late, and socket.join still adds the id to the room.
Register(s) ==
    /\ process = "up"
    /\ s \in SocketIds
    /\ sockets[s].state \in {"connecting", "gone"}
    /\ onlineUsers' = [u \in DOMAIN onlineUsers \cup {sockets[s].user} |->
                          IF u = sockets[s].user THEN s ELSE onlineUsers[u]]
    /\ events' = events \cup {Broadcast("user-online", sockets[s].user, s)}
    /\ sockets' = [sockets EXCEPT ![s].state =
                      IF sockets[s].state = "connecting" THEN "live" ELSE "closed"]
    /\ rooms' = [rooms EXCEPT ![s] = @ \cup {UserRoom(sockets[s].user)}]
    /\ UNCHANGED <<chatVars, callVars, handler, emitted, process>>

\* The client goes away: the socket leaves its rooms and the 'disconnect'
\* listener, if installed, starts.
ClientDisconnect(s) ==
    /\ process = "up"
    /\ s \in SocketIds
    /\ sockets[s].state \in {"connecting", "live"}
    /\ sockets' = [sockets EXCEPT ![s].state =
                      IF sockets[s].state = "live" THEN "hdel" ELSE "gone"]
    /\ rooms' = [rooms EXCEPT ![s] = {}]
    /\ UNCHANGED <<onlineUsers, events, chatVars, callVars,
                   handler, emitted, process>>

\* disconnect listener: await _redis.hdel('online-users', userId)
DisconnectHdel(s) ==
    /\ process = "up"
    /\ s \in SocketIds
    /\ sockets[s].state = "hdel"
    /\ onlineUsers' = [u \in DOMAIN onlineUsers \ {sockets[s].user} |-> onlineUsers[u]]
    /\ sockets' = [sockets EXCEPT ![s].state = "hexists"]
    /\ UNCHANGED <<events, chatVars, callVars, signalVars>>

\* The condition under which the disconnect listener broadcasts user-offline:
\* hexists(...) === 0 in part_010, none in socket.js.
OfflineCheck(u) == handler = "socket.js" \/ u \notin DOMAIN onlineUsers

\* disconnect listener after hdel: if (await hexists(...) === 0)
\* socket.broadcast.emit('user-offline') in part_010, io.emit('user-offline')
\* in socket.js; either way the closing socket is no longer a recipient.
DisconnectCheck(s) ==
    /\ process = "up"
    /\ s \in SocketIds
    /\ sockets[s].state = "hexists"
    /\ events' = IF OfflineCheck(sockets[s].user)
                   THEN events \cup {Broadcast("user-offline", sockets[s].user, s)}
                   ELSE events
    /\ sockets' = [sockets EXCEPT ![s].state = "closed"]
    /\ UNCHANGED <<onlineUsers, chatVars, callVars, signalVars>>

----------------------------------------------------------------------------
(* Handshake: io.use *)

\* socket.handshake.auth.token as clients present it: none, a string that is
\* no JWT, an expired token of B, a token naming a user that does not exist,
\* and good tokens.
Credentials ==
    {[kind |-> "absent", id |-> "none"], [kind |-> "malformed", id |-> "none"],
     [kind |-> "expired", id |-> "B"], [kind |-> "valid", id |-> "ghost"]}
        \cup {[kind |-> "valid", id |-> u] : u \in HandshakeUsers}

\* jwt.verify(token, secret): throws on a malformed or expired token, else
\* returns the payload.
JwtVerify(token) ==
    CASE token.kind = "malformed" ->
            [name |-> "JsonWebTokenError", message |-> "jwt malformed"]
      [] token.kind = "expired" ->
            [name |-> "TokenExpiredError", message |-> "jwt expired"]
      [] OTHER -> [name |-> "none", id |-> token.id, expired |-> FALSE]

Refuse(reason) == [error |-> reason, user |-> "none"]

\* IoUse without the `if (!user)` check.
IoUseNoLookup(cred) ==
    IF cred.kind = "absent"
      THEN Refuse("Authentication error")
    ELSE LET decoded == JwtVerify(cred)
         IN IF decoded.name # "none"
              THEN Refuse(IF decoded.name = "TokenExpiredError"
                            THEN "Token expired"
                            ELSE "Authentication failed")
            ELSE [error |-> "none", user |-> decoded.id]

\* The middleware's verdict: next() for a user, or next(new Error(reason)).
IoUse(cred) ==
    IF cred.kind = "absent"
      THEN Refuse(IF handler = "part_010" THEN "Authentication error"
                  ELSE "Authentication error: Token missing")
    ELSE LET decoded == JwtVerify(cred)
         IN IF decoded.name # "none"
              THEN Refuse(IF handler = "part_010"
                            THEN IF decoded.name = "TokenExpiredError"
                                   THEN "Token expired"
                                   ELSE "Authentication failed"
                            ELSE "Authentication failed: " \o decoded.message)
            ELSE IF handler = "socket.js" /\ decoded.expired
              THEN Refuse("Token expired")
            ELSE IF decoded.id \notin Users
              THEN Refuse(IF handler = "part_010" THEN "User not found"
                          ELSE "Authentication error: User not found")
            ELSE [error |-> "none", user |-> decoded.id]

\* A client opens a connection with credential cred: refused with a reason, or
\* the connection handler starts.
Handshake(cred) ==
    /\ process = "up"
    /\ LET verdict == IoUse(cred)
       IN IF verdict.error = "none"
            THEN Connect(verdict.user)
            ELSE /\ emitted' = [name |-> "connect_error", credential |-> cred.kind,
                                reason |-> verdict.error]
                 /\ UNCHANGED <<presenceVars, chatVars, callVars,
                                handler, rooms, process>>

----------------------------------------------------------------------------
(* Delivery tracker: updateMessageStatus *)

MsgIds == 1..Len(messages)

Includes(arr, u) == u \in Range(arr)

Participants(m) == Range(Conversations[m.conversationId])

\* recipients = participants.filter(id => id !== message.senderId)
Recipients(m) == Participants(m) \ {m.senderId}

\* Mutate without the includes() guards: every call pushes.
MutateUnguarded(doc, u, status) ==
    IF status = "delivered"
      THEN [doc EXCEPT !.deliveredTo = Append(@, u), !.status = "delivered"]
    ELSE IF status = "seen"
      THEN LET readBy == Append(doc.readBy, u)
               allSeen == \A r \in Recipients(doc) : Includes(readBy, r)
           IN [doc EXCEPT !.readBy = readBy,
                          !.status = IF allSeen THEN "seen" ELSE @]
    ELSE doc

\* Mutate with the status of 'seen' advanced by the first reader.
MutateFirstReader(doc, u, status) ==
    IF status = "delivered" /\ ~Includes(doc.deliveredTo, u)
      THEN [doc EXCEPT !.deliveredTo = Append(@, u), !.status = "delivered"]
    ELSE IF status = "seen" /\ ~Includes(doc.readBy, u)
      THEN [doc EXCEPT !.readBy = Append(@, u), !.status = "seen"]
    ELSE doc

\* Mutate with the push of 'delivered' left out.
MutateStatusOnly(doc, u, status) ==
    IF status = "delivered" /\ ~Includes(doc.deliveredTo, u)
      THEN [doc EXCEPT !.status = "delivered"]
    ELSE IF status = "seen" /\ ~Includes(doc.readBy, u)
      THEN LET readBy == Append(doc.readBy, u)
               allSeen == \A r \in Recipients(doc) : Includes(readBy, r)
           IN [doc EXCEPT !.readBy = readBy,
                          !.status = IF allSeen THEN "seen" ELSE @]
    ELSE doc

\* The in-memory document after the switch statement, given the document
\* findById returned.
Mutate(doc, u, status) ==
    IF status = "delivered" /\ ~Includes(doc.deliveredTo, u)
      THEN [doc EXCEPT !.deliveredTo = Append(@, u), !.status = "delivered"]
    ELSE IF status = "seen" /\ ~Includes(doc.readBy, u)
      THEN LET readBy == Append(doc.readBy, u)
               allSeen == \A r \in Recipients(doc) : Includes(readBy, r)
           IN [doc EXCEPT !.readBy = readBy,
                          !.status = IF allSeen THEN "seen" ELSE @]
    ELSE doc

Suffix(after, before) == SubSeq(after, Len(before) + 1, Len(after))

\* What message.save() will send: Mongoose persists the tracked changes, an
\* array push as $push of the pushed elements and a changed path as $set.
Delta(loaded, doc) ==
    [pushDelivered |-> Suffix(doc.deliveredTo, loaded.deliveredTo),
     pushRead |-> Suffix(doc.readBy, loaded.readBy),
     setStatus |-> IF doc.status = loaded.status THEN "unmodified" ELSE doc.status]

\* The stored document after the update message.save() sends.
Save(stored, d) ==
    [stored EXCEPT !.deliveredTo = @ \o d.pushDelivered,
                   !.readBy = @ \o d.pushRead,
                   !.status = IF d.setStatus = "unmodified" THEN @ ELSE d.setStatus]

\* updateMessageStatus run without interleaving on stored document doc.
updateMessageStatus(doc, u, status) ==
    Save(doc, Delta(doc, Mutate(doc, u, status)))

NoDelta == [pushDelivered |-> <<>>, pushRead |-> <<>>, setStatus |-> "unmodified"]

Task(m, u, status, pc, d) ==
    [messageId |-> m, userId |-> u, status |-> status, pc |-> pc, delta |-> d]

One(t) == SetToBag({t})

\* An invocation that has read the message and conversation and awaits save.
Loaded(m, u, status) ==
    Task(m, u, status, "save",
         Delta(messages[m], Mutate(messages[m], u, status)))

\* socket.on('message-delivered' / 'message-seen'): the handler calls
\* updateMessageStatus(messageId, socket.user._id, status); findById of an
\* unknown id returns null and nothing happens.
MessageEvent(s, m, status) ==
    /\ s \in SocketIds
    /\ sockets[s].state = "live"
    /\ opCount < MaxOps
    /\ IF m \in MsgIds
         THEN /\ inflight' = inflight (+) One(Loaded(m, sockets[s].user, status))
              /\ opCount' = opCount + 1
         ELSE UNCHANGED <<inflight, opCount>>
    /\ UNCHANGED <<messages, presenceVars, callVars, signalVars>>

MessageDelivered(s, m) == MessageEvent(s, m, "delivered")

MessageSeen(s, m) == MessageEvent(s, m, "seen")

\* A spawned invocation reaches its findById calls.
UMSFind(t) ==
    /\ BagIn(t, inflight)
    /\ t.pc = "find"
    /\ inflight' = (inflight (-) One(t)) (+) One(Loaded(t.messageId, t.userId, t.status))
    /\ UNCHANGED <<messages, opCount, presenceVars, callVars, signalVars>>

\* await message.save()
UMSSave(t) ==
    /\ BagIn(t, inflight)
    /\ t.pc = "save"
    /\ messages' = [messages EXCEPT ![t.messageId] = Save(@, t.delta)]
    /\ inflight' = inflight (-) One(t)
    /\ UNCHANGED <<opCount, presenceVars, callVars, signalVars>>

\* The participants sendMessage marks as delivered at send time.
OnlineRecipients(conv, sender) ==
    SelectSeq(Conversations[conv],
              LAMBDA p : p # sender /\ p \in appLocalsOnlineUsers)

\* POST /messages by participant u: the message is saved, updateMessageStatus
\* is called (not awaited) for each participant in app.locals.onlineUsers,
\* then the response is sent.
sendMessage(u, conv) ==
    /\ u \in Range(Conversations[conv])
    /\ Len(messages) < MaxMsgs
    /\ LET m == Len(messages) + 1
           online == OnlineRecipients(conv, u)
       IN /\ opCount + Len(online) <= MaxOps
          /\ messages' = Append(messages,
                 [conversationId |-> conv, senderId |-> u,
                  deliveredTo |-> <<>>, readBy |-> <<>>, status |-> "sent"])
          /\ inflight' = inflight (+) SetToBag(
                 {Task(m, online[i], "delivered", "find", NoDelta)
                    : i \in 1..Len(online)})
          /\ opCount' = opCount + Len(online)
    /\ UNCHANGED <<presenceVars, callVars, signalVars>>

\* The messages getMessages marks as seen: those of the conversation the
\* requesting user has neither read nor sent, oldest first.
Unread(u, conv) ==
    SelectSeq([i \in MsgIds |-> i],
              LAMBDA i : /\ messages[i].conversationId = conv
                         /\ ~Includes(messages[i].readBy, u)
                         /\ messages[i].senderId # u)

\* GET /conversations/:id/messages by participant u: updateMessageStatus
\* (msg, u, 'seen') is started for every unread message (Promise.all).
getMessages(u, conv) ==
    /\ u \in Range(Conversations[conv])
    /\ LET unread == Unread(u, conv)
       IN /\ opCount + Len(unread) <= MaxOps
          /\ inflight' = inflight (+) SetToBag(
                 {Task(unread[i], u, "seen", "find", NoDelta)
                    : i \in 1..Len(unread)})
          /\ opCount' = opCount + Len(unread)
    /\ UNCHANGED <<messages, presenceVars, callVars, signalVars>>

\* The message id lists a 'batch-message-seen' event carries: one id, or two
\* ids that may be the same.
BatchLists ==
    {<<m>> : m \in 1..MaxMsgs} \cup {<<m, n>> : m \in 1..MaxMsgs, n \in 1..MaxMsgs}

\* The bag holding each element of seq as often as seq does.
BagOfSeq(seq) ==
    [x \in Range(seq) |-> Cardinality({i \in DOMAIN seq : seq[i] = x})]

\* socket.on('batch-message-seen'): Promise.all(messageIds.map(id =>
\* updateMessageStatus(id, userId, 'seen'))) starts one invocation per list
\* entry; the invocation of an unknown id finds nothing and returns null.
BatchMessageSeen(s, messageIds) ==
    /\ handler = "part_010"
    /\ s \in SocketIds
    /\ sockets[s].state = "live"
    /\ LET known == SelectSeq(messageIds, LAMBDA m : m \in MsgIds)
       IN /\ opCount + Len(known) <= MaxOps
          /\ inflight' = inflight (+) BagOfSeq(
                 [i \in 1..Len(known) |->
                    Task(known[i], sockets[s].user, "seen", "find", NoDelta)])
          /\ opCount' = opCount + Len(known)
    /\ UNCHANGED <<messages, presenceVars, callVars, signalVars>>

----------------------------------------------------------------------------
(* Calls: startVideoCall, updateCallStatus, webrtc-offer, key expiry *)

\* _redis.expire(`call:${callId}`, 60)
CallKeyTTL == 60

\* startedAt: undefined
NoDate == -1

\* callSchema.status enum
CallStatuses == {"initiated", "ongoing", "ended", "missed"}

CallIds == 1..Len(calls)

\* POST /calls by participant u: the call and its message are saved, the
\* participant ids are stored under call:<callId>:participants.
startVideoCall(u, conv) ==
    /\ u \in Range(Conversations[conv])
    /\ Len(calls) < MaxCalls
    /\ calls' = Append(calls,
           [initiator |-> u, status |-> "initiated", startedAt |-> NoDate,
            endedAt |-> NoDate, createdAt |-> now])
    /\ messages' = Append(messages,
           [conversationId |-> conv, senderId |-> u,
            deliveredTo |-> <<>>, readBy |-> <<>>, status |-> "sent"])
    /\ callParticipants' = callParticipants \cup {Len(calls) + 1}
    /\ UNCHANGED <<inflight, opCount, callKey, now, presenceVars, signalVars>>

\* SetCallStatus that forgets the start timestamp.
SetCallStatusNoStart(call, status) ==
    [call EXCEPT !.status = status,
                 !.endedAt = IF status = "ended" THEN now ELSE @]

\* The in-memory call document before call.save().
SetCallStatus(call, status) ==
    [call EXCEPT !.status = status,
                 !.startedAt = IF status = "ongoing" THEN now ELSE @,
                 !.endedAt = IF status = "ended" THEN now ELSE @]

\* The HTTP status updateCallStatus answers with.
updateCallStatusResponse(c, status) ==
    IF c \notin CallIds THEN 404
    ELSE IF status \in CallStatuses THEN 200
    ELSE 500

\* PATCH /calls/:id with body {status}: 404 for an unknown id; a status outside
\* the schema's enum fails validation in call.save() (500, nothing stored).
updateCallStatus(c, status) ==
    /\ IF c \notin CallIds
         THEN UNCHANGED <<calls, callParticipants>>
         ELSE /\ callParticipants' = IF status = "ended"
                                       THEN callParticipants \ {c}
                                       ELSE callParticipants
              /\ calls' = IF status \in CallStatuses
                            THEN [calls EXCEPT ![c] = SetCallStatus(@, status)]
                            ELSE calls
    /\ UNCHANGED <<callKey, now, chatVars, presenceVars, signalVars>>

\* socket.to(targetSocketId).emit(name, {from: userId, <payload>, callId})
Relay(name, s, targetSocketId, payload, callId) ==
    [name |-> name, userId |-> sockets[s].user, from |-> s,
     to |-> InRoom(SocketRoom(targetSocketId)) \ {s},
     payload |-> payload, callId |-> callId]

\* Forward that falls back to socket.broadcast.emit for an absent target.
ForwardOrBroadcast(name, s, to, payload, callId) ==
    IF to \in DOMAIN onlineUsers
      THEN Relay(name, s, onlineUsers[to], payload, callId)
      ELSE [name |-> name, userId |-> sockets[s].user, from |-> s,
            to |-> Connected \ {s}, payload |-> payload, callId |-> callId]

\* What the three signalling listeners share: hget of the target's socket id,
\* relay if there is one.
Forward(name, s, to, payload, callId) ==
    IF to \in DOMAIN onlineUsers
      THEN Relay(name, s, onlineUsers[to], payload, callId)
      ELSE emitted

\* socket.on('webrtc-offer'): hget of the target, in part_010 hset + expire of
\* call:<callId>, relay to the target's socket when it has a presence entry.
WebrtcOffer(s, to, offer, callId) ==
    /\ process = "up"
    /\ s \in SocketIds
    /\ sockets[s].state = "live"
    /\ callKey' = IF handler = "part_010"
                    THEN [c \in DOMAIN callKey \cup {callId} |->
                             IF c = callId THEN now + CallKeyTTL ELSE callKey[c]]
                    ELSE callKey
    /\ emitted' = Forward("webrtc-offer", s, to, offer, callId)
    /\ UNCHANGED <<presenceVars, calls, callParticipants, now, chatVars,
                   handler, rooms, process>>

\* socket.on('webrtc-answer')
WebrtcAnswer(s, to, answer, callId) ==
    /\ process = "up"
    /\ s \in SocketIds
    /\ sockets[s].state = "live"
    /\ emitted' = Forward("webrtc-answer", s, to, answer, callId)
    /\ UNCHANGED <<presenceVars, chatVars, callVars, handler, rooms, process>>

\* socket.on('webrtc-ice-candidate')
WebrtcIceCandidate(s, to, candidate, callId) ==
    /\ process = "up"
    /\ s \in SocketIds
    /\ sockets[s].state = "live"
    /\ emitted' = Forward("webrtc-ice-candidate", s, to, candidate, callId)
    /\ UNCHANGED <<presenceVars, chatVars, callVars, handler, rooms, process>>

----------------------------------------------------------------------------
(* Room fan-out and handler failures: socketHandler event listeners *)

\* The call ids clients put in their signalling events.
SignalledCalls == {"call1"}

\* Values clients put in offer / answer / candidate.
Payloads == {"sdp1", "sdp2"}

\* The room lists clients send with join-conversations.
RoomLists == {{"c1"}, {"c1", "c2"}}

\* socket.on('join-conversations'): conversationIds.forEach(id => socket.join(id))
JoinConversations(s, conversationIds) ==
    /\ process = "up"
    /\ s \in SocketIds
    /\ sockets[s].state = "live"
    /\ rooms' = [rooms EXCEPT ![s] = @ \cup conversationIds]
    /\ UNCHANGED <<presenceVars, chatVars, callVars, handler, emitted, process>>

\* send-message with socket.to(...) in place of io.to(...).
SendMessageEventButSender(s, conv) ==
    /\ process = "up"
    /\ s \in SocketIds
    /\ sockets[s].state = "live"
    /\ emitted' = [name |-> "new-message", userId |-> sockets[s].user, from |-> s,
                   to |-> InRoom(conv) \ {s}, conversationId |-> conv]
    /\ UNCHANGED <<presenceVars, chatVars, callVars, handler, rooms, process>>

\* socket.on('send-message'): io.to(message.conversationId).emit('new-message')
SendMessageEvent(s, conv) ==
    /\ process = "up"
    /\ s \in SocketIds
    /\ sockets[s].state = "live"
    /\ emitted' = [name |-> "new-message", userId |-> sockets[s].user, from |-> s,
                   to |-> InRoom(conv), conversationId |-> conv]
    /\ UNCHANGED <<presenceVars, chatVars, callVars, handler, rooms, process>>

\* typing with io.to(...) in place of socket.to(...).
TypingEventToRoom(name, s, conv) ==
    /\ process = "up"
    /\ s \in SocketIds
    /\ sockets[s].state = "live"
    /\ emitted' = [name |-> name, userId |-> sockets[s].user, from |-> s,
                   to |-> InRoom(conv), conversationId |-> conv]
    /\ UNCHANGED <<presenceVars, chatVars, callVars, handler, rooms, process>>

\* socket.to(conversationId).emit(name, {userId: socket.user._id, conversationId})
TypingEvent(name, s, conv) ==
    /\ process = "up"
    /\ s \in SocketIds
    /\ sockets[s].state = "live"
    /\ emitted' = [name |-> name, userId |-> sockets[s].user, from |-> s,
                   to |-> InRoom(conv) \ {s}, conversationId |-> conv]
    /\ UNCHANGED <<presenceVars, chatVars, callVars, handler, rooms, process>>

Typing(s, conv) == TypingEvent("typing", s, conv)

StopTyping(s, conv) == TypingEvent("stop-typing", s, conv)

\* The listeners safeEmit wraps.
Wrapped ==
    IF handler = "part_010"
      THEN {"join-conversations", "send-message", "disconnect"}
      ELSE {}

\* The events whose listener throws on a payload of the wrong shape: forEach
\* or map of a non-array, a property of null, destructuring of undefined.
\* typing and stop-typing only pass their payload on; message-delivered and
\* message-seen call updateMessageStatus, which catches everything itself.
Throwing ==
    {"join-conversations", "send-message",
     "webrtc-offer", "webrtc-answer", "webrtc-ice-candidate"}
        \cup (IF handler = "part_010" THEN {"batch-message-seen"} ELSE {})

\* socket.emit('error', 'Event processing failed')
ErrorEvent(s) ==
    [name |-> "error", from |-> s, to |-> {s} \cap Connected,
     message |-> "Event processing failed"]

\* An error nothing catches (a throw in a listener, a rejected promise of an
\* async listener) ends the Node 18 process: every connection drops, the
\* presence entries stay.
Crash ==
    /\ process' = "down"
    /\ sockets' = [s \in SocketIds |-> [sockets[s] EXCEPT !.state = "closed"]]
    /\ rooms' = [s \in SocketIds |-> {}]

\* Event `name` arrives on socket s with a payload its listener throws on.
HandlerThrows(s, name) ==
    /\ process = "up"
    /\ s \in SocketIds
    /\ sockets[s].state = "live"
    /\ name \in Throwing
    /\ IF name \in Wrapped
         THEN /\ emitted' = ErrorEvent(s)
              /\ UNCHANGED <<sockets, rooms, process>>
         ELSE /\ Crash
              /\ UNCHANGED emitted
    /\ UNCHANGED <<onlineUsers, events, chatVars, callVars, handler>>

\* disconnect listener: hdel rejects.  safeEmit catches it in part_010 (the
\* 'error' event goes to a socket that is gone); nothing does in socket.js.
DisconnectHdelFails(s) ==
    /\ process = "up"
    /\ s \in SocketIds
    /\ sockets[s].state = "hdel"
    /\ IF "disconnect" \in Wrapped
         THEN /\ emitted' = ErrorEvent(s)
              /\ sockets' = [sockets EXCEPT ![s].state = "closed"]
              /\ UNCHANGED <<rooms, process>>
         ELSE /\ Crash
              /\ UNCHANGED emitted
    /\ UNCHANGED <<onlineUsers, events, chatVars, callVars, handler>>

\* The same without the try/catch of updateMessageStatus: the rejection
\* reaches the async listener, where nothing handles it.
UMSThrowsUncaught(t) ==
    /\ BagIn(t, inflight)
    /\ inflight' = inflight (-) One(t)
    /\ Crash
    /\ UNCHANGED <<messages, opCount, onlineUsers, events, callVars,
                   handler, emitted>>

\* A store operation of the invocation (findById or save) throws: the catch
\* block logs the error and returns null; nothing has been written.
UMSThrows(t) ==
    /\ BagIn(t, inflight)
    /\ inflight' = inflight (-) One(t)
    /\ UNCHANGED <<messages, opCount, presenceVars, callVars, signalVars>>

----------------------------------------------------------------------------
\* Time passes; Redis drops the keys whose expiry has been reached.
Tick ==
    /\ now < MaxClock
    /\ now' = now + TickSeconds
    /\ callKey' = [c \in {k \in DOMAIN callKey : callKey[k] > now'} |-> callKey[c]]
    /\ UNCHANGED <<calls, callParticipants, chatVars, presenceVars, signalVars>>

----------------------------------------------------------------------------
Init ==
    /\ sockets = <<>>
    /\ onlineUsers = <<>>
    /\ events = {}
    /\ messages = <<>>
    /\ inflight = EmptyBag
    /\ opCount = 0
    /\ calls = <<>>
    /\ callKey = <<>>
    /\ callParticipants = {}
    /\ now = 0
    /\ handler \in Handlers
    /\ rooms = <<>>
    /\ emitted = NoEmission
    /\ process = "up"

NextPresence ==
    \/ \E u \in HandshakeUsers : Connect(u)
    \/ \E s \in 1..MaxSockets :
          \/ Register(s)
          \/ ClientDisconnect(s)
          \/ DisconnectHdel(s)
          \/ DisconnectCheck(s)
    \/ \E u \in Senders, conv \in ConversationIds : sendMessage(u, conv)

SpecPresence == Init /\ [][NextPresence]_vars

\* A, B and C have connected and registered in turn (Connect, Register for
\* each); nothing else has happened.
LiveSockets ==
    /\ sockets = <<[user |-> "A", state |-> "live"],
                   [user |-> "B", state |-> "live"],
                   [user |-> "C", state |-> "live"]>>
    /\ onlineUsers = [u \in Users |-> CHOOSE s \in 1..3 : sockets[s].user = u]
    /\ events = {[name |-> "user-online", userId |-> sockets[s].user, from |-> s,
                   to |-> 1..(s - 1), callId |-> 0] : s \in 1..3}
    /\ messages = <<>>
    /\ inflight = EmptyBag
    /\ opCount = 0
    /\ calls = <<>>
    /\ callKey = <<>>
    /\ callParticipants = {}
    /\ now = 0
    /\ rooms = <<{SocketRoom(1), UserRoom("A")}, {SocketRoom(2), UserRoom("B")},
                 {SocketRoom(3), UserRoom("C")}>>
    /\ emitted = NoEmission
    /\ process = "up"

\* The same with the part_010 handler loaded.
InitLive ==
    /\ LiveSockets
    /\ handler = "part_010"

NextChat ==
    \/ \E u \in Senders, conv \in ConversationIds : sendMessage(u, conv)
    \/ \E s \in 1..3, m \in 1..MaxMsgs : MessageDelivered(s, m)
    \/ \E s \in 1..3, m \in 1..MaxMsgs : MessageSeen(s, m)
    \/ \E u \in Users, conv \in ConversationIds : getMessages(u, conv)
    \/ \E t \in BagToSet(inflight) : UMSFind(t)
    \/ \E t \in BagToSet(inflight) : UMSSave(t)

SpecChat == InitLive /\ [][NextChat]_vars

\* No updateMessageStatus invocation is pending.
Idle == inflight = EmptyBag

\* The same, with every request arriving after the previous one has finished.
NextChatSeq ==
    \/ \E u \in Senders, conv \in ConversationIds : Idle /\ sendMessage(u, conv)
    \/ \E s \in 1..3, m \in 1..MaxMsgs : Idle /\ MessageDelivered(s, m)
    \/ \E s \in 1..3, m \in 1..MaxMsgs : Idle /\ MessageSeen(s, m)
    \/ \E u \in Users, conv \in ConversationIds : Idle /\ getMessages(u, conv)
    \/ \E t \in BagToSet(inflight) : UMSFind(t)
    \/ \E t \in BagToSet(inflight) : UMSSave(t)

SpecChatSeq == InitLive /\ [][NextChatSeq]_vars

\* The acknowledgement events of the socket handler alone, with store
\* operations that may fail.
NextAcks ==
    \/ \E u \in Senders, conv \in ConversationIds : sendMessage(u, conv)
    \/ \E s \in 1..3, m \in 1..MaxMsgs : MessageDelivered(s, m)
    \/ \E s \in 1..3, m \in 1..MaxMsgs : MessageSeen(s, m)
    \/ \E s \in 1..3, messageIds \in BatchLists : BatchMessageSeen(s, messageIds)
    \/ \E t \in BagToSet(inflight) : UMSFind(t)
    \/ \E t \in BagToSet(inflight) : UMSSave(t)
    \/ \E t \in BagToSet(inflight) : UMSThrows(t)

SpecAcks == InitLive /\ [][NextAcks]_vars

\* Batches of read acknowledgements alone.
NextBatch ==
    \/ \E u \in Senders, conv \in ConversationIds : sendMessage(u, conv)
    \/ \E s \in 1..3, messageIds \in BatchLists : BatchMessageSeen(s, messageIds)
    \/ \E t \in BagToSet(inflight) : UMSFind(t)
    \/ \E t \in BagToSet(inflight) : UMSSave(t)

SpecBatch == InitLive /\ [][NextBatch]_vars

NextCall ==
    \/ \E u \in Senders, conv \in ConversationIds : startVideoCall(u, conv)
    \/ \E c \in 1..MaxCalls, status \in CallStatuses \cup {"bogus"} :
          updateCallStatus(c, status)
    \/ \E s \in 1..3, to \in Callees, c \in 1..MaxCalls :
          sockets[s].user \in Senders /\ WebrtcOffer(s, to, "sdp1", c)
    \/ Tick

SpecCall == InitLive /\ [][NextCall]_vars

\* The connection lifecycle with credentials, the room fan-out, the
\* signalling relay and failing handlers, from the start of the process.
NextSignal ==
    \/ \E cred \in Credentials : Handshake(cred)
    \/ \E s \in 1..MaxSockets : Register(s)
    \/ \E s \in 1..MaxSockets : ClientDisconnect(s)
    \/ \E s \in 1..MaxSockets : DisconnectHdel(s)
    \/ \E s \in 1..MaxSockets : DisconnectHdelFails(s)
    \/ \E s \in 1..MaxSockets : DisconnectCheck(s)
    \/ \E s \in 1..MaxSockets, ids \in RoomLists : JoinConversations(s, ids)
    \/ \E s \in 1..MaxSockets, conv \in ConversationIds : SendMessageEvent(s, conv)
    \/ \E s \in 1..MaxSockets, conv \in ConversationIds : Typing(s, conv)
    \/ \E s \in 1..MaxSockets, conv \in ConversationIds : StopTyping(s, conv)
    \/ \E s \in 1..MaxSockets, to \in Users, p \in Payloads, c \in 1..MaxCalls :
          WebrtcOffer(s, to, p, c)
    \/ \E s \in 1..MaxSockets, to \in Users, p \in Payloads, c \in 1..MaxCalls :
          WebrtcAnswer(s, to, p, c)
    \/ \E s \in 1..MaxSockets, to \in Users, p \in Payloads, c \in 1..MaxCalls :
          WebrtcIceCandidate(s, to, p, c)
    \/ \E s \in 1..MaxSockets, name \in Throwing : HandlerThrows(s, name)

SpecSignal == Init /\ [][NextSignal]_vars

\* Connection setup alone: handshakes, registrations, and clients that go
\* away before or after their registration.
NextHandshake ==
    \/ \E cred \in Credentials : Handshake(cred)
    \/ \E s \in 1..MaxSockets : Register(s)
    \/ \E s \in 1..MaxSockets : ClientDisconnect(s)

SpecHandshake == Init /\ [][NextHandshake]_vars

\* InitLive with either handler loaded.
InitRegistered ==
    /\ LiveSockets
    /\ handler \in Handlers

\* Room fan-out among registered sockets that join rooms, emit and leave.
NextRooms ==
    \/ \E s \in 1..3 : sockets[s].user \in HandshakeUsers /\ ClientDisconnect(s)
    \/ \E s \in 1..3 : DisconnectHdel(s)
    \/ \E s \in 1..3 : DisconnectCheck(s)
    \/ \E s \in 1..3, ids \in RoomLists : JoinConversations(s, ids)
    \/ \E s \in 1..3, conv \in ConversationIds : SendMessageEvent(s, conv)
    \/ \E s \in 1..3, conv \in ConversationIds : Typing(s, conv)
    \/ \E s \in 1..3, conv \in ConversationIds : StopTyping(s, conv)

SpecRooms == InitRegistered /\ [][NextRooms]_vars

\* Signalling relay among registered sockets, some of which leave.
NextRelay ==
    \/ \E s \in 1..3 : sockets[s].user \in HandshakeUsers /\ ClientDisconnect(s)
    \/ \E s \in 1..3 : DisconnectHdel(s)
    \/ \E s \in 1..3 : DisconnectCheck(s)
    \/ \E s \in 1..3, to \in Users, p \in Payloads, c \in SignalledCalls :
          WebrtcOffer(s, to, p, c)
    \/ \E s \in 1..3, to \in Users, p \in Payloads, c \in SignalledCalls :
          WebrtcAnswer(s, to, p, c)
    \/ \E s \in 1..3, to \in Users, p \in Payloads, c \in SignalledCalls :
          WebrtcIceCandidate(s, to, p, c)

SpecRelay == InitRegistered /\ [][NextRelay]_vars

----------------------------------------------------------------------------
(* Properties *)

Rank(status) == CASE status = "sent" -> 0
                  [] status = "delivered" -> 1
                  [] status = "seen" -> 2

AckStatuses == {"delivered", "seen"}

\* C1: a message's status never moves backward in sent < delivered < seen,
\* whatever updateMessageStatus calls are made; in particular 'delivered'
\* after 'seen' leaves it at 'seen'.
C1_StatusNeverRegresses ==
    [][\A m \in MsgIds :
          Rank(messages'[m].status) >= Rank(messages[m].status)]_vars

\* C2: in every reachable state a message's status is 'seen' if and only if
\* every recipient of its conversation is in readBy.
C2_SeenIffAllRead ==
    \A m \in MsgIds :
        (messages[m].status = "seen")
            <=> (Recipients(messages[m]) \subseteq Range(messages[m].readBy))

\* C3: when acknowledgements of different recipients interleave, the stored
\* message keeps every pushed user and its status reflects the union: a save
\* that adds a reader and completes the recipient set in readBy leaves the
\* status 'seen'.
C3_ConcurrentAcksUnion ==
    [][\A t \in BagToSet(inflight) :
          (UMSSave(t) /\ t.status = "seen" /\ t.delta.pushRead # <<>>)
              => LET m == messages'[t.messageId]
                 IN /\ Includes(m.readBy, t.userId)
                    /\ Recipients(m) \subseteq Range(m.readBy)
                          => m.status = "seen"]_vars

\* C4: user-offline for a user is emitted only by the disconnect that leaves
\* that user with no live connection: never while another connection of the
\* same user is live.
C4_OfflineOnlyAfterLastDisconnect ==
    [][\A s \in SocketIds :
          (DisconnectCheck(s) /\ events' # events)
              => Live(sockets[s].user)' = {}]_vars

\* C5: when sendMessage stores a message while a non-sender participant has a
\* presence entry written by the connection handler, then once sendMessage has
\* responded deliveredTo contains that participant and status is 'delivered'.
C5_DeliveredAtSendWhenPresent ==
    [][\A u \in Senders, conv \in ConversationIds :
          sendMessage(u, conv)
              => LET m == messages'[Len(messages')]
                 IN \A b \in Recipients(m) \cap DOMAIN onlineUsers :
                        /\ Includes(m.deliveredTo, b)
                        /\ m.status = "delivered"]_vars

\* C6: updateMessageStatus is idempotent per (messageId, userId, status): on
\* every stored message, applying the same call twice in sequence gives the
\* same deliveredTo, readBy and status as applying it once.
C6_Idempotent ==
    \A m \in MsgIds, u \in Users, st \in AckStatuses :
        updateMessageStatus(updateMessageStatus(messages[m], u, st), u, st)
            = updateMessageStatus(messages[m], u, st)

\* A message on which both kinds of acknowledgement have been stored and a
\* repeated call finds its user already recorded.
C6_Witness ==
    \E m \in MsgIds, u \in Users :
        /\ inflight = EmptyBag
        /\ Includes(messages[m].deliveredTo, u)
        /\ Includes(messages[m].readBy, u)
        /\ updateMessageStatus(messages[m], u, "delivered") = messages[m]

TerminalStatuses == {"ended", "missed"}

CallRequests == CallStatuses \cup {"bogus"}

\* C7: updateCallStatus never changes a call whose status is 'ended' or
\* 'missed': a requested transition out of it is answered with an error and
\* status, startedAt and endedAt stay as they were.
C7_TerminalIsFinal ==
    [][\A c \in CallIds, st \in CallRequests :
          (/\ updateCallStatus(c, st)
           /\ calls[c].status \in TerminalStatuses
           /\ st # calls[c].status)
              => /\ calls'[c] = calls[c]
                 /\ updateCallStatusResponse(c, st) >= 400]_vars

AllowedTransitions ==
    {<<"initiated", "ongoing">>, <<"initiated", "ended">>,
     <<"ongoing", "ended">>, <<"initiated", "missed">>}

\* C8: a call's status changes only along initiated -> ongoing,
\* initiated/ongoing -> ended and initiated -> missed.
C8_OnlyAllowedTransitions ==
    [][\A c \in CallIds :
          \/ calls'[c].status = calls[c].status
          \/ <<calls[c].status, calls'[c].status>> \in AllowedTransitions]_vars

\* C9: a call created by startVideoCall is 'initiated' with no startedAt; a
\* successful updateCallStatus('ongoing') sets startedAt; a successful
\* updateCallStatus('ended') sets endedAt and leaves no
\* call:<callId>:participants record.
C9_CallTimestampsAndCleanup ==
    [][/\ \A u \in Senders, conv \in ConversationIds :
             startVideoCall(u, conv)
                 => LET c == calls'[Len(calls')]
                    IN /\ c.status = "initiated"
                       /\ c.startedAt = NoDate
                       /\ Len(calls') \in callParticipants'
       /\ \A c \in CallIds :
             /\ updateCallStatus(c, "ongoing")
                    => /\ calls'[c].status = "ongoing"
                       /\ calls'[c].startedAt # NoDate
                       /\ calls'[c].startedAt = now
             /\ updateCallStatus(c, "ended")
                    => /\ calls'[c].status = "ended"
                       /\ calls'[c].endedAt # NoDate
                       /\ c \notin callParticipants']_vars

\* A call that was started, answered and ended.
C9_Witness ==
    \E c \in CallIds :
        /\ calls[c].status = "ended"
        /\ calls[c].startedAt # NoDate
        /\ calls[c].endedAt # NoDate
        /\ calls[c].startedAt < calls[c].endedAt
        /\ c \notin callParticipants

\* Never answered, never ended.
Abandoned(c) ==
    /\ calls[c].status = "initiated"
    /\ calls[c].startedAt = NoDate
    /\ calls[c].endedAt = NoDate

\* A webrtc-offer for the call was handled less than CallKeyTTL ago.
OfferPending(c) == c \in DOMAIN callKey

\* C10: an abandoned call attempt self-cleans: once the fixed expiry has
\* elapsed since the call was started and since its last webrtc-offer, with no
\* cleanup call, no record keyed by the call id (call:<callId>,
\* call:<callId>:participants) remains in the shared store.
C10_AbandonedCallSelfCleans ==
    \A c \in CallIds :
        (/\ Abandoned(c)
         /\ now >= calls[c].createdAt + CallKeyTTL
         /\ ~OfferPending(c))
            => c \notin callParticipants

SignalNames == {"webrtc-offer", "webrtc-answer", "webrtc-ice-candidate"}

\* The listener of signalling event `name` runs on socket s.
Signal(name, s, to, p, c) ==
    \/ name = "webrtc-offer" /\ WebrtcOffer(s, to, p, c)
    \/ name = "webrtc-answer" /\ WebrtcAnswer(s, to, p, c)
    \/ name = "webrtc-ice-candidate" /\ WebrtcIceCandidate(s, to, p, c)

\* The disconnect listener of connection x has work left.
Leaving(x) == sockets[x].state \in {"hdel", "hexists"}

\* C11: for each of webrtc-offer, webrtc-answer and webrtc-ice-candidate sent
\* by a user to another user `to`: if the presence store holds a locator for
\* `to`, exactly the connection it names receives the same-named event with
\* from = the sender's user id, the payload and the callId, and no other
\* connection does.  (A locator whose connection is just being deregistered
\* is left aside.)
C11_RelayReachesLocator ==
    [][\A name \in SignalNames, s \in SocketIds, to \in Users,
          p \in Payloads, c \in 1..MaxCalls :
          (/\ to # sockets[s].user
           /\ to \in DOMAIN onlineUsers
           /\ ~Leaving(onlineUsers[to])
           /\ Signal(name, s, to, p, c))
              => /\ emitted'.name = name
                 /\ emitted'.userId = sockets[s].user
                 /\ emitted'.payload = p
                 /\ emitted'.callId = c
                 /\ emitted'.to = {onlineUsers[to]}]_vars

\* C12: a signalling event whose target has no presence entry is dropped:
\* nothing is emitted to any connection, no error reaches the sender, the
\* sender's connection (and every other) stays as it was.
C12_AbsentTargetDropped ==
    [][\A name \in SignalNames, s \in SocketIds, to \in Users,
          p \in Payloads, c \in SignalledCalls :
          (to \notin DOMAIN onlineUsers /\ Signal(name, s, to, p, c))
              => /\ emitted' = emitted
                 /\ events' = events
                 /\ sockets' = sockets
                 /\ sockets'[s].state = "live"
                 /\ process' = "up"]_vars

\* An offer was handled (its call key is set) and nothing has ever been
\* emitted, so its target had no presence entry; the sender is still live.
C12_Witness ==
    /\ DOMAIN callKey # {}
    /\ emitted = NoEmission
    /\ \E u \in Users : u \notin DOMAIN onlineUsers
    /\ \E s \in SocketIds : sockets[s].state = "live"

\* C13: the presence store holds at most one entry per user (it is a hash
\* keyed by user id), and a user with no entry has no live connection:
\* whenever a registered connection of U is live, 'online-users' has U.
C13_LiveMeansPresent ==
    \A u \in Users : Live(u) # {} => u \in DOMAIN onlineUsers

\* Absent, malformed, or resolving to no user.
InvalidCredential(cred) ==
    \/ cred.kind \in {"absent", "malformed"}
    \/ cred.kind = "valid" /\ cred.id \notin Users

\* C14: a handshake whose credential is absent, malformed or resolves to a
\* non-existent user is refused: no connection is created for it, so no
\* presence entry is written, no user-online is broadcast, no room joined.
C14_InvalidHandshakeRefused ==
    [][\A cred \in Credentials :
          (Handshake(cred) /\ InvalidCredential(cred))
              => /\ emitted'.name = "connect_error"
                 /\ emitted'.credential = cred.kind
                 /\ UNCHANGED <<sockets, onlineUsers, events, rooms>>]_vars

\* A handshake was refused after another one had been accepted and set up.
C14_Witness ==
    /\ emitted.name = "connect_error"
    /\ emitted.credential \in {"absent", "malformed", "valid"}
    /\ Len(sockets) = 1
    /\ sockets[1].state = "live"
    /\ DOMAIN onlineUsers = {sockets[1].user}

\* C15: an expired credential is refused with the reason 'Token expired',
\* which no other kind of refused credential gets.
C15_ExpiredIsDistinct ==
    emitted.name = "connect_error"
        => (emitted.credential = "expired" <=> emitted.reason = "Token expired")

\* The connections other than s that have a transport.
Others(s) ==
    {x \in SocketIds \ {s} : sockets[x].state \in {"connecting", "live"}}

\* C16: when the setup of an authenticated connection of U completes, the
\* presence store maps U to that connection, the connection is in room
\* user_<U>, and user-online{U} went to every other connection and not to
\* the new one.
C16_SetupRegisters ==
    [][\A s \in SocketIds :
          (Register(s) /\ sockets[s].state = "connecting")
              => LET u == sockets[s].user
                 IN /\ sockets'[s].state = "live"
                    /\ u \in DOMAIN onlineUsers'
                    /\ onlineUsers'[u] = s
                    /\ ("user_" \o u) \in rooms'[s]
                    /\ \E e \in events' \ events :
                          /\ e.name = "user-online"
                          /\ e.userId = u
                          /\ e.to = Others(s)
                          /\ s \notin e.to]_vars

\* A second connection completed its setup while the first was live.
C16_Witness ==
    /\ Len(sockets) = 2
    /\ \A s \in SocketIds : sockets[s].state = "live"
    /\ \E e \in events : e.name = "user-online" /\ e.from = 2 /\ e.to = {1}
    /\ onlineUsers[sockets[2].user] = 2

\* The inbound events of the handler.
InboundEvents ==
    {"join-conversations", "send-message", "typing", "stop-typing",
     "message-delivered", "message-seen", "batch-message-seen"}
        \cup SignalNames

\* C17: an exception thrown inside the handler of an inbound event is caught
\* for that event only: 'error' goes to the originating connection and to no
\* other, that connection stays open, the others are unaffected.
C17_HandlerFailureIsolated ==
    [][\A s \in SocketIds, name \in InboundEvents :
          HandlerThrows(s, name)
              => /\ emitted'.name = "error"
                 /\ emitted'.to = {s}
                 /\ sockets' = sockets
                 /\ rooms' = rooms
                 /\ process' = "up"]_vars

\* C18: when the presence-store delete fails during disconnect handling, the
\* failure is swallowed: the connection is torn down, nothing escapes the
\* listener, the other connections keep being served.
C18_FailedCleanupSwallowed ==
    [][\A s \in SocketIds :
          DisconnectHdelFails(s)
              => /\ sockets'[s].state = "closed"
                 /\ process' = "up"
                 /\ \A x \in SocketIds \ {s} :
                        sockets'[x] = sockets[x] /\ rooms'[x] = rooms[x]]_vars

\* The connections other than s joined to room conv.
OtherMembers(s, conv) ==
    {x \in Others(s) : conv \in rooms[x]}

\* C19: when a connection joined to room C emits typing (or stop-typing) for
\* C, every other connection joined to C receives it with the sender's user
\* id and C; the sender does not, nor does any connection outside C.
C19_TypingReachesRoomButSender ==
    [][\A s \in SocketIds, conv \in ConversationIds :
          /\ (Typing(s, conv) /\ conv \in rooms[s])
                 => /\ emitted'.name = "typing"
                    /\ emitted'.userId = sockets[s].user
                    /\ emitted'.conversationId = conv
                    /\ emitted'.to = OtherMembers(s, conv)
          /\ (StopTyping(s, conv) /\ conv \in rooms[s])
                 => /\ emitted'.name = "stop-typing"
                    /\ emitted'.userId = sockets[s].user
                    /\ emitted'.conversationId = conv
                    /\ emitted'.to = OtherMembers(s, conv)]_vars

\* A member's typing reached another member while a third connection, which
\* is live and has not joined, got nothing.
C19_Witness ==
    /\ emitted.name = "typing"
    /\ emitted.to # {}
    /\ emitted.conversationId \in rooms[emitted.from]
    /\ \E x \in SocketIds :
          /\ sockets[x].state = "live"
          /\ emitted.conversationId \notin rooms[x]
          /\ x \notin emitted.to

\* C20: send-message with conversationId C delivers new-message to every
\* connection joined to room C at that moment, the sender's included if it
\* has joined, and to no connection that has not joined C.
C20_NewMessageReachesRoom ==
    [][\A s \in SocketIds, conv \in ConversationIds :
          SendMessageEvent(s, conv)
              => /\ emitted'.name = "new-message"
                 /\ emitted'.conversationId = conv
                 /\ \A x \in SocketIds :
                        x \in emitted'.to
                            <=> /\ sockets[x].state \in {"connecting", "live"}
                                /\ conv \in rooms[x]]_vars

\* A new-message went to its sender and another member, and not to a live
\* connection outside the room.
C20_Witness ==
    /\ emitted.name = "new-message"
    /\ emitted.from \in emitted.to
    /\ emitted.to # {emitted.from}
    /\ \E x \in SocketIds : sockets[x].state = "live" /\ x \notin emitted.to

\* C21: the events of one connection are handled one at a time: the listener
\* of a message-delivered or message-seen event reads the store only when no
\* updateMessageStatus invocation started by an earlier event of the same
\* connection is still pending.
C21_EventsOfAConnectionSerialized ==
    [][\A s \in SocketIds, m \in MsgIds, status \in AckStatuses :
          (\E t \in BagToSet(inflight) : t.userId = sockets[s].user)
              => ~MessageEvent(s, m, status)]_vars

NoDuplicates(arr) == \A i, j \in DOMAIN arr : arr[i] = arr[j] => i = j

\* C22: once the invocations of batch-message-seen events have finished, no
\* recipient is in a message's readBy twice, and a message's status is 'seen'
\* exactly when all of its recipients are in readBy.
C22_BatchAsSeparateEvents ==
    Idle => \A m \in MsgIds :
               /\ \A u \in Recipients(messages[m]) :
                      Cardinality({i \in DOMAIN messages[m].readBy :
                                      messages[m].readBy[i] = u}) <= 1
               /\ messages[m].status = "seen"
                      <=> Recipients(messages[m]) \subseteq Range(messages[m].readBy)

C24_NoEntryAfterLastDisconnect ==
    \A u \in Users :
        (/\ \E s \in SocketIds : sockets[s].user = u
         /\ \A s \in SocketIds : sockets[s].user = u => sockets[s].state = "closed")
            => u \notin DOMAIN onlineUsers

\* C25: whenever user-online is emitted for a connection, the presence store
\* already maps the user to that connection.
C25_OnlineAfterPresenceWrite ==
    [][\A e \in events' \ events :
          e.name = "user-online"
              => /\ e.userId \in DOMAIN onlineUsers'
                 /\ onlineUsers'[e.userId] = e.from]_vars

\* A peer received user-online and finds the user's entry.
C25_Witness ==
    \E e \in events :
        /\ e.name = "user-online"
        /\ \E x \in e.to : sockets[x].state = "live"
        /\ e.userId \in DOMAIN onlineUsers
        /\ onlineUsers[e.userId] = e.from

\* C26: deliveredTo and readBy of a message hold only recipients of its
\* conversation, the participants other than the sender.
C26_OnlyRecipientsAcknowledge ==
    \A m \in MsgIds :
        Range(messages[m].deliveredTo) \cup Range(messages[m].readBy)
            \subseteq Recipients(messages[m])

\* C27: no user id is in a message's deliveredTo twice or in its readBy
\* twice.
C27_AcknowledgementsAreSets ==
    \A m \in MsgIds :
        /\ NoDuplicates(messages[m].deliveredTo)
        /\ NoDuplicates(messages[m].readBy)

Untouched(m) == m.deliveredTo = <<>> /\ m.readBy = <<>>

\* C28: a message nobody has acknowledged has status 'sent', and the status
\* leaves 'sent' only in a step that adds a user to deliveredTo or readBy.
C28_SentUntilAcknowledged ==
    [][/\ \A m \in MsgIds : Untouched(messages[m]) => messages[m].status = "sent"
       /\ \A m \in 1..Len(messages') :
             Untouched(messages'[m]) => messages'[m].status = "sent"
       /\ \A m \in MsgIds :
             (messages[m].status = "sent" /\ messages'[m].status # "sent")
                 => \/ Len(messages'[m].deliveredTo) > Len(messages[m].deliveredTo)
                    \/ Len(messages'[m].readBy) > Len(messages[m].readBy)]_vars

\* A message has left 'sent' and has a user in deliveredTo.
C28_Witness ==
    \E m \in MsgIds :
        /\ messages[m].status = "delivered"
        /\ messages[m].deliveredTo # <<>>
        /\ messages[m].readBy = <<>>

\* C29: startedAt and endedAt of a call, once set, keep their value, and
\* when both are set startedAt is not later than endedAt.
C29_CallTimestampsWrittenOnce ==
    [][\A c \in CallIds :
          /\ calls[c].startedAt # NoDate => calls'[c].startedAt = calls[c].startedAt
          /\ calls[c].endedAt # NoDate => calls'[c].endedAt = calls[c].endedAt
          /\ (calls'[c].startedAt # NoDate /\ calls'[c].endedAt # NoDate)
                => calls'[c].startedAt <= calls'[c].endedAt]_vars

\* C30: an updateMessageStatus invocation that fails, on an unknown message
\* id or on a store operation that throws, changes no message and throws
\* nothing: the process stays up and every connection stays as it was.
C30_FailureChangesNothing ==
    [][/\ \A t \in BagToSet(inflight) :
             UMSThrows(t) => /\ messages' = messages
                             /\ process' = "up"
                             /\ sockets' = sockets
       /\ \A s \in SocketIds, m \in 1..MaxMsgs, status \in AckStatuses :
             (m \notin MsgIds /\ MessageEvent(s, m, status))
                 => /\ messages' = messages
                    /\ inflight' = inflight
                    /\ process' = "up"
                    /\ sockets' = sockets]_vars

\* The one invocation that found its message has failed: the message is as
\* it was sent.
C30_Witness ==
    /\ opCount = 1
    /\ Idle
    /\ Len(messages) = 1
    /\ Untouched(messages[1])
    /\ messages[1].status = "sent"
    /\ process = "up"

====
